---- MODULE Spec2Model ----
(***************************************************************************)
(* Model of src/structs/input.rs: decoding of raw console INPUT_RECORDs    *)
(* into the typed InputRecord enum, with the flag decoders ButtonState,    *)
(* ControlKeyState and EventFlags.                                         *)
(*                                                                         *)
(* Representation.  TLC integers are 32-bit signed, so a u32 is kept as a  *)
(* record [hi, lo] of its two 16-bit halves; an i32 is an integer.  The    *)
(* payload union of an INPUT_RECORD is 16 bytes of shared memory, kept as  *)
(* eight little-endian 16-bit words; each union arm is a view of it.       *)
(***************************************************************************)
EXTENDS Integers, Sequences, FiniteSets

\* ------------------------------------------------------------------------
\* Fixed-width integers
\* ------------------------------------------------------------------------

U32(hi, lo) == [hi |-> hi, lo |-> lo]

\* `x as i32` for a u32 x (two's complement reinterpretation)
AsI32(v) == IF v.hi < 32768 THEN v.hi * 65536 + v.lo
                            ELSE (v.hi - 65536) * 65536 + v.lo

\* `s as u32` for an i32 s
AsU32(s) == IF s >= 0 THEN U32(s \div 65536, s % 65536)
                      ELSE LET t == (s + 2147483647) + 1
                           IN  U32(32768 + (t \div 65536), t % 65536)

\* a 16-bit word read as i16 (COORD.X, COORD.Y)
AsI16(w) == IF w >= 32768 THEN w - 65536 ELSE w

RECURSIVE And16(_, _)
And16(a, b) == IF a = 0 \/ b = 0 THEN 0
               ELSE (a % 2) * (b % 2) + 2 * And16(a \div 2, b \div 2)

RECURSIVE Or16(_, _)
Or16(a, b) == IF a = 0 THEN b ELSE IF b = 0 THEN a
              ELSE (IF a % 2 = 1 \/ b % 2 = 1 THEN 1 ELSE 0)
                   + 2 * Or16(a \div 2, b \div 2)

\* `a & b` and `a | b` on u32
BitAnd(a, b) == U32(And16(a.hi, b.hi), And16(a.lo, b.lo))
BitOr(a, b)  == U32(Or16(a.hi, b.hi), Or16(a.lo, b.lo))

NonZero(v) == v.hi # 0 \/ v.lo # 0

\* BOOL::as_bool of the windows crate: self.0 != 0
as_bool(b) == NonZero(b)

\* ------------------------------------------------------------------------
\* Constants of windows::Win32::System::Console
\* ------------------------------------------------------------------------

KEY_EVENT                == U32(0, 1)
MOUSE_EVENT              == U32(0, 2)
WINDOW_BUFFER_SIZE_EVENT == U32(0, 4)
MENU_EVENT               == U32(0, 8)
FOCUS_EVENT              == U32(0, 16)

FROM_LEFT_1ST_BUTTON_PRESSED == U32(0, 1)
RIGHTMOST_BUTTON_PRESSED     == U32(0, 2)
FROM_LEFT_2ND_BUTTON_PRESSED == U32(0, 4)
FROM_LEFT_3RD_BUTTON_PRESSED == U32(0, 8)
FROM_LEFT_4TH_BUTTON_PRESSED == U32(0, 16)

\* ------------------------------------------------------------------------
\* The payload union INPUT_RECORD.Event: eight 16-bit words, and its arms
\* ------------------------------------------------------------------------

DWordAt(ev, i) == U32(ev[i + 1], ev[i])

\* the character union of KEY_EVENT_RECORD: UnicodeChar (u16) and
\* AsciiChar (8 bits) share their first byte
UnicodeChar(uChar) == uChar
AsciiChar(uChar)   == uChar % 256

KeyEventArm(ev) ==
    [ bKeyDown          |-> DWordAt(ev, 1),
      wRepeatCount      |-> ev[3],
      wVirtualKeyCode   |-> ev[4],
      wVirtualScanCode  |-> ev[5],
      uChar             |-> ev[6],
      dwControlKeyState |-> DWordAt(ev, 7) ]

MouseEventArm(ev) ==
    [ dwMousePosition   |-> [X |-> AsI16(ev[1]), Y |-> AsI16(ev[2])],
      dwButtonState     |-> DWordAt(ev, 3),
      dwControlKeyState |-> DWordAt(ev, 5),
      dwEventFlags      |-> DWordAt(ev, 7) ]

WindowBufferSizeEventArm(ev) ==
    [ dwSize |-> [X |-> AsI16(ev[1]), Y |-> AsI16(ev[2])] ]

FocusEventArm(ev) == [ bSetFocus |-> DWordAt(ev, 1) ]

MenuEventArm(ev) == [ dwCommandId |-> DWordAt(ev, 1) ]

\* ------------------------------------------------------------------------
\* Flag decoders
\* ------------------------------------------------------------------------

\* variant: the wheel delta (high word) alone is kept as the state
ButtonState_from_HighWord(event) == [state |-> AsI16(event.hi)]

\* impl From<u32> for ButtonState
ButtonState_from(event) == [state |-> AsI32(event)]

release_button(self) == self.state = 0

left_button(self) ==
    NonZero(BitAnd(AsU32(self.state), FROM_LEFT_1ST_BUTTON_PRESSED))

\* variant: only the rightmost button counts as the right button
right_button_RightmostOnly(self) ==
    NonZero(BitAnd(AsU32(self.state), RIGHTMOST_BUTTON_PRESSED))

right_button(self) ==
    NonZero(BitAnd(AsU32(self.state),
                   BitOr(BitOr(RIGHTMOST_BUTTON_PRESSED,
                               FROM_LEFT_3RD_BUTTON_PRESSED),
                         FROM_LEFT_4TH_BUTTON_PRESSED)))

middle_button(self) ==
    NonZero(BitAnd(AsU32(self.state), FROM_LEFT_2ND_BUTTON_PRESSED))

scroll_down(self) == self.state < 0

scroll_up(self) == self.state > 0

state(self) == self.state

\* struct ControlKeyState(u32)
ControlKeyState(raw) == [raw |-> raw]

\* variant: every bit of the mask must be set
has_state_AllBits(self, st) == BitAnd(st, self.raw) = st

has_state(self, st) == NonZero(BitAnd(st, self.raw))

\* variant: the flags are tested bit by bit
EventFlags_from_BitTest(event) ==
    IF ~NonZero(event) THEN "PressOrRelease"
    ELSE IF NonZero(BitAnd(event, U32(0, 2))) THEN "DoubleClick"
    ELSE IF NonZero(BitAnd(event, U32(0, 8))) THEN "MouseHwheeled"
    ELSE IF NonZero(BitAnd(event, U32(0, 1))) THEN "MouseMoved"
    ELSE IF NonZero(BitAnd(event, U32(0, 4))) THEN "MouseWheeled"
    ELSE "Unknown"

\* impl From<u32> for EventFlags
EventFlags_from(event) ==
    CASE event = U32(0, 0) -> "PressOrRelease"
      [] event = U32(0, 2) -> "DoubleClick"
      [] event = U32(0, 8) -> "MouseHwheeled"
      [] event = U32(0, 1) -> "MouseMoved"
      [] event = U32(0, 4) -> "MouseWheeled"
      [] OTHER             -> "Unknown"

\* ------------------------------------------------------------------------
\* Leaf record decoders
\* ------------------------------------------------------------------------

\* variant: the character is read through the narrow arm
from_winapi_Narrow(rec) ==
    [ key_down          |-> as_bool(rec.bKeyDown),
      repeat_count      |-> rec.wRepeatCount,
      virtual_key_code  |-> rec.wVirtualKeyCode,
      virtual_scan_code |-> rec.wVirtualScanCode,
      u_char            |-> AsciiChar(rec.uChar),
      control_key_state |-> ControlKeyState(rec.dwControlKeyState) ]

from_winapi(rec) ==
    [ key_down          |-> as_bool(rec.bKeyDown),
      repeat_count      |-> rec.wRepeatCount,
      virtual_key_code  |-> rec.wVirtualKeyCode,
      virtual_scan_code |-> rec.wVirtualScanCode,
      u_char            |-> UnicodeChar(rec.uChar),
      control_key_state |-> ControlKeyState(rec.dwControlKeyState) ]

MouseEvent_from(event) ==
    [ mouse_position    |-> [x |-> event.dwMousePosition.X,
                             y |-> event.dwMousePosition.Y],
      button_state      |-> ButtonState_from(event.dwButtonState),
      control_key_state |-> ControlKeyState(event.dwControlKeyState),
      event_flags       |-> EventFlags_from(event.dwEventFlags) ]

WindowBufferSizeRecord_from(rec) ==
    [ size |-> [x |-> rec.dwSize.X, y |-> rec.dwSize.Y] ]

FocusEventRecord_from(rec) == [ set_focus |-> as_bool(rec.bSetFocus) ]

MenuEventRecord_from(rec) == [ command_id |-> rec.dwCommandId ]

\* ------------------------------------------------------------------------
\* Inputs: raw records as the console delivers them
\* ------------------------------------------------------------------------

\* INPUT_RECORD.EventType is a u16
EventTypes == {0, 1, 2, 3, 4, 8, 16, 32, 65535}

BoolSamples == {U32(0, 0), U32(0, 1), U32(0, 2), U32(1, 0)}

RepeatCounts == {1, 5}

VirtualKeyCodes == {13, 65}

VirtualScanCodes == {30}

\* 0x0000, 'A', 0x0141 (same low byte as 'A'), 0x20AC
UChars == {0, 65, 321, 8364}

ControlKeySamples ==
    {U32(0, 0), U32(0, 1), U32(0, 16), U32(0, 272), U32(32768, 0)}

MouseXs == {0, 80, 65535}

MouseYs == {24}

ButtonSamples ==
    {U32(hi, lo) : hi \in {0, 120, 65416, 32768},
                   lo \in {0, 1, 2, 4, 8, 16, 32, 33}}

MouseControlKeySamples == {U32(0, 3), U32(0, 16)}

EventFlagSamples ==
    {U32(0, lo) : lo \in {0, 1, 2, 3, 4, 5, 8, 16, 33}}
        \cup {U32(1, 0), U32(1, 1), U32(32768, 4)}

\* masks a caller passes to ControlKeyState::has_state
Masks == {U32(0, 0), U32(0, 1), U32(0, 16), U32(0, 17), U32(0, 256),
          U32(65535, 65535)}

\* memory image of a populated KEY_EVENT_RECORD
KeyMem(bk, rc, vk, sc, uc, cks) ==
    <<bk.lo, bk.hi, rc, vk, sc, uc, cks.lo, cks.hi>>

\* memory image of a populated MOUSE_EVENT_RECORD
MouseMem(x, y, bs, cks, ef) ==
    <<x, y, bs.lo, bs.hi, cks.lo, cks.hi, ef.lo, ef.hi>>

KeyPayloads ==
    {KeyMem(bk, rc, vk, sc, uc, cks) :
        bk \in BoolSamples, rc \in RepeatCounts, vk \in VirtualKeyCodes,
        sc \in VirtualScanCodes, uc \in UChars, cks \in ControlKeySamples}

MousePayloads ==
    {MouseMem(x, y, bs, cks, ef) :
        x \in MouseXs, y \in MouseYs, bs \in ButtonSamples,
        cks \in MouseControlKeySamples, ef \in EventFlagSamples}

\* one populated dword or COORD, the rest of the union left over
SmallPayloads ==
    {<<w0, w1, g, g, g, g, g, g>> :
        w0 \in {0, 1, 80, 120}, w1 \in {0, 24, 40}, g \in {0, 65535}}

Payloads(et) == IF et = 1 THEN KeyPayloads
                ELSE IF et = 2 THEN MousePayloads
                ELSE SmallPayloads

\* the live console: whether ScreenBuffer::current() and .info() succeed,
\* and the size terminal_size() reports
ConsoleStates ==
    { [current |-> "Ok",  info |-> "Ok",  width |-> 120, height |-> 40],
      [current |-> "Ok",  info |-> "Ok",  width |-> 80,  height |-> 24],
      [current |-> "Err", info |-> "Ok",  width |-> 0,   height |-> 0],
      [current |-> "Ok",  info |-> "Err", width |-> 0,   height |-> 0] }

\* ------------------------------------------------------------------------
\* State
\* ------------------------------------------------------------------------

VARIABLES
    pc,        \* "idle", "called", "returned", "inspected", "panicked"
    record,    \* the INPUT_RECORD passed to InputRecord::from
    console,   \* live console state behind ScreenBuffer
    result,    \* the InputRecord returned, or NoResult
    panic,     \* which panic ended the call, or "none"
    queries,   \* terminal-size queries made by the current call
    armsRead,  \* union arms the current call has read
    obs        \* what the caller observed through the accessors

vars == <<pc, record, console, result, panic, queries, armsRead, obs>>

NoResult == [variant |-> "None"]

NoObs == [kind |-> "none"]

Variant(name, value) == [variant |-> name, value |-> value]

EventTypeAsU32 == U32(0, record.EventType)

Init ==
    /\ pc = "idle"
    /\ record = [EventType |-> 0, Event |-> <<0, 0, 0, 0, 0, 0, 0, 0>>]
    /\ console \in ConsoleStates
    /\ result = NoResult
    /\ panic = "none"
    /\ queries = 0
    /\ armsRead = {}
    /\ obs = NoObs

\* a raw record arrives and InputRecord::from is called on it
Call ==
    /\ pc = "idle"
    /\ \E et \in EventTypes :
         \E ev \in Payloads(et) :
            record' = [EventType |-> et, Event |-> ev]
    /\ pc' = "called"
    /\ UNCHANGED <<console, result, panic, queries, armsRead, obs>>

\* the console is resized, or its handle becomes (in)valid
ConsoleChange ==
    /\ console' \in ConsoleStates \ {console}
    /\ UNCHANGED <<pc, record, result, panic, queries, armsRead, obs>>

Return(r, arms) ==
    /\ pc' = "returned"
    /\ result' = r
    /\ armsRead' = arms
    /\ UNCHANGED <<record, console, panic, obs>>

Panic(msg, arms) ==
    /\ pc' = "panicked"
    /\ panic' = msg
    /\ armsRead' = arms
    /\ UNCHANGED <<record, console, result, obs>>

\* variant: the key path also asks the console for its size
FromKeyEvent_Queries ==
    /\ pc = "called"
    /\ EventTypeAsU32 = KEY_EVENT
    /\ queries' = queries + 1
    /\ IF console.current = "Err" \/ console.info = "Err"
         THEN Panic("unwrap: ScreenBuffer::current", {"KeyEvent"})
         ELSE Return(Variant("KeyEvent",
                             from_winapi(KeyEventArm(record.Event))),
                     {"KeyEvent"})

FromKeyEvent ==
    /\ pc = "called"
    /\ EventTypeAsU32 = KEY_EVENT
    /\ Return(Variant("KeyEvent", from_winapi(KeyEventArm(record.Event))),
              {"KeyEvent"})
    /\ UNCHANGED queries

FromMouseEvent ==
    /\ pc = "called"
    /\ EventTypeAsU32 = MOUSE_EVENT
    /\ Return(Variant("MouseEvent",
                      MouseEvent_from(MouseEventArm(record.Event))),
              {"MouseEvent"})
    /\ UNCHANGED queries

\* variant: the size embedded in the payload is returned as it is
FromWindowBufferSizeEvent_KeepsRaw ==
    /\ pc = "called"
    /\ EventTypeAsU32 = WINDOW_BUFFER_SIZE_EVENT
    /\ LET buffer == WindowBufferSizeRecord_from(
                         WindowBufferSizeEventArm(record.Event))
       IN  /\ queries' = queries + 1
           /\ IF console.current = "Err"
                THEN Panic("unwrap: ScreenBuffer::current",
                           {"WindowBufferSizeEvent"})
              ELSE IF console.info = "Err"
                THEN Panic("unwrap: ScreenBuffer::info",
                           {"WindowBufferSizeEvent"})
              ELSE Return(Variant("WindowBufferSizeEvent", buffer),
                          {"WindowBufferSizeEvent"})

\* variant: a failed query is swallowed into a zero-size record
FromWindowBufferSizeEvent_ZeroOnFailure ==
    /\ pc = "called"
    /\ EventTypeAsU32 = WINDOW_BUFFER_SIZE_EVENT
    /\ LET buffer == WindowBufferSizeRecord_from(
                         WindowBufferSizeEventArm(record.Event))
           screen_size ==
               IF console.current = "Err" \/ console.info = "Err"
                 THEN [width |-> 0, height |-> 0]
                 ELSE [width |-> console.width, height |-> console.height]
       IN  /\ queries' = queries + 1
           /\ Return(Variant("WindowBufferSizeEvent",
                             [buffer EXCEPT !.size.y = screen_size.height,
                                            !.size.x = screen_size.width]),
                     {"WindowBufferSizeEvent"})

FromWindowBufferSizeEvent ==
    /\ pc = "called"
    /\ EventTypeAsU32 = WINDOW_BUFFER_SIZE_EVENT
    /\ LET buffer == WindowBufferSizeRecord_from(
                         WindowBufferSizeEventArm(record.Event))
           screen_size == [width |-> console.width, height |-> console.height]
       IN  /\ queries' = queries + 1
           /\ IF console.current = "Err"
                THEN Panic("unwrap: ScreenBuffer::current",
                           {"WindowBufferSizeEvent"})
              ELSE IF console.info = "Err"
                THEN Panic("unwrap: ScreenBuffer::info",
                           {"WindowBufferSizeEvent"})
              ELSE Return(Variant("WindowBufferSizeEvent",
                            [buffer EXCEPT !.size.y = screen_size.height,
                                           !.size.x = screen_size.width]),
                          {"WindowBufferSizeEvent"})

\* variant: a focus record is routed to the menu decoder
FromFocusEvent_AsMenu ==
    /\ pc = "called"
    /\ EventTypeAsU32 = FOCUS_EVENT
    /\ Return(Variant("MenuEvent",
                      MenuEventRecord_from(MenuEventArm(record.Event))),
              {"MenuEvent"})
    /\ UNCHANGED queries

FromFocusEvent ==
    /\ pc = "called"
    /\ EventTypeAsU32 = FOCUS_EVENT
    /\ Return(Variant("FocusEvent",
                      FocusEventRecord_from(FocusEventArm(record.Event))),
              {"FocusEvent"})
    /\ UNCHANGED queries

FromMenuEvent ==
    /\ pc = "called"
    /\ EventTypeAsU32 = MENU_EVENT
    /\ Return(Variant("MenuEvent",
                      MenuEventRecord_from(MenuEventArm(record.Event))),
              {"MenuEvent"})
    /\ UNCHANGED queries

\* variant: an unknown discriminant falls back to the focus decoder
FromUnexpected_Default ==
    /\ pc = "called"
    /\ EventTypeAsU32 \notin {KEY_EVENT, MOUSE_EVENT, WINDOW_BUFFER_SIZE_EVENT,
                              FOCUS_EVENT, MENU_EVENT}
    /\ Return(Variant("FocusEvent",
                      FocusEventRecord_from(FocusEventArm(record.Event))),
              {"FocusEvent"})
    /\ UNCHANGED queries

FromUnexpected ==
    /\ pc = "called"
    /\ EventTypeAsU32 \notin {KEY_EVENT, MOUSE_EVENT, WINDOW_BUFFER_SIZE_EVENT,
                              FOCUS_EVENT, MENU_EVENT}
    /\ Panic("Unexpected INPUT_RECORD EventType", {})
    /\ UNCHANGED queries

\* the caller reads the button predicates of a returned MouseEvent
InspectButtons ==
    /\ pc = "returned"
    /\ result.variant = "MouseEvent"
    /\ LET b == result.value.button_state
       IN  obs' = [ kind           |-> "buttons",
                    release_button |-> release_button(b),
                    left_button    |-> left_button(b),
                    right_button   |-> right_button(b),
                    middle_button  |-> middle_button(b),
                    scroll_down    |-> scroll_down(b),
                    scroll_up      |-> scroll_up(b),
                    state          |-> state(b) ]
    /\ pc' = "inspected"
    /\ UNCHANGED <<record, console, result, panic, queries, armsRead>>

\* the caller asks has_state(mask) of a returned control-key state
InspectControlKeys ==
    /\ pc = "returned"
    /\ result.variant \in {"KeyEvent", "MouseEvent"}
    /\ \E mask \in Masks :
         obs' = [ kind  |-> "has_state",
                  mask  |-> mask,
                  value |-> has_state(result.value.control_key_state, mask) ]
    /\ pc' = "inspected"
    /\ UNCHANGED <<record, console, result, panic, queries, armsRead>>

\* the caller consumes the returned InputRecord; nothing is retained
Consume ==
    /\ pc \in {"returned", "inspected"}
    /\ pc' = "idle"
    /\ record' = [EventType |-> 0, Event |-> <<0, 0, 0, 0, 0, 0, 0, 0>>]
    /\ result' = NoResult
    /\ queries' = 0
    /\ armsRead' = {}
    /\ obs' = NoObs
    /\ UNCHANGED <<console, panic>>

Next ==
    \/ Call
    \/ Consume
    \/ ConsoleChange
    \/ FromKeyEvent
    \/ FromMouseEvent
    \/ FromWindowBufferSizeEvent
    \/ FromFocusEvent
    \/ FromMenuEvent
    \/ FromUnexpected
    \/ InspectButtons
    \/ InspectControlKeys

Spec == Init /\ [][Next]_vars

\* ------------------------------------------------------------------------
\* Properties
\* ------------------------------------------------------------------------

\* the five known discriminants and the variant each stands for
KnownEventTypes == {1, 2, 4, 8, 16}

VariantOf(et) ==
    CASE et = 1  -> "KeyEvent"
      [] et = 2  -> "MouseEvent"
      [] et = 4  -> "WindowBufferSizeEvent"
      [] et = 16 -> "FocusEvent"
      [] et = 8  -> "MenuEvent"

\* the call on the current record has ended (returned or panicked)
Ended == pc \in {"returned", "inspected", "panicked"}

\* a step that ends the call on the current record
EndsCall == pc = "called" /\ pc' # "called"

\* bit i (0..15) of a 16-bit word
Bit(w, i) == (w \div (2 ^ i)) % 2 = 1

\* some bit position is set in both u32 values
ShareABit(a, b) ==
    \/ \E i \in 0 .. 15 : Bit(a.lo, i) /\ Bit(b.lo, i)
    \/ \E i \in 0 .. 15 : Bit(a.hi, i) /\ Bit(b.hi, i)

\* C1 (as stated): for every record with one of the five known
\* discriminants, InputRecord::from returns the variant of that
\* discriminant, having read only the arm that discriminant selects.
C1_AsStated ==
    (Ended /\ record.EventType \in KnownEventTypes)
        => /\ result.variant = VariantOf(record.EventType)
           /\ armsRead = {VariantOf(record.EventType)}

\* C1 (amended): for every record with one of the five known
\* discriminants, InputRecord::from reads only the arm that discriminant
\* selects and never returns any other variant; it returns the variant of
\* the discriminant, except that a window-buffer-size record whose
\* terminal-size query fails returns nothing (the call panics).
C1_Routing ==
    (Ended /\ record.EventType \in KnownEventTypes)
        => /\ armsRead = {VariantOf(record.EventType)}
           /\ \/ /\ result.variant = VariantOf(record.EventType)
                 /\ pc # "panicked"
              \/ /\ record.EventType = 4
                 /\ pc = "panicked"
                 /\ panic \in {"unwrap: ScreenBuffer::current",
                               "unwrap: ScreenBuffer::info"}
                 /\ result = NoResult

C1_Witness ==
    /\ pc = "returned"
    /\ record.EventType = 16
    /\ result.variant = "FocusEvent"
    /\ armsRead = {"FocusEvent"}

\* C2: a record whose discriminant is none of the five known kinds ends the
\* call in the "Unexpected INPUT_RECORD EventType" panic: no variant is
\* returned and no arm of the union is read.
C2_UnrecognizedDiscriminant ==
    (pc # "idle" /\ pc # "called" /\ record.EventType \notin KnownEventTypes)
        => /\ pc = "panicked"
           /\ panic = "Unexpected INPUT_RECORD EventType"
           /\ result = NoResult
           /\ armsRead = {}

C2_Witness ==
    /\ pc = "panicked"
    /\ record.EventType = 3
    /\ panic = "Unexpected INPUT_RECORD EventType"
    /\ result = NoResult

\* C3: every decode of a window-buffer-size record made while the size query
\* succeeds returns WindowBufferSizeEvent with x = the width and y = the
\* height the console has at that decode, whatever size the payload holds.
C3_LiveSize ==
    [][ ( /\ EndsCall
          /\ record.EventType = 4
          /\ console.current = "Ok"
          /\ console.info = "Ok" )
        => /\ pc' = "returned"
           /\ result' = Variant("WindowBufferSizeEvent",
                                [size |-> [x |-> console.width,
                                           y |-> console.height]]) ]_vars

C3_Witness ==
    /\ pc = "returned"
    /\ record.EventType = 4
    /\ record.Event[1] = 80
    /\ record.Event[2] = 24
    /\ result.variant = "WindowBufferSizeEvent"
    /\ result.value.size = [x |-> 120, y |-> 40]

\* C4: a decode of a window-buffer-size record made while the size query
\* fails (ScreenBuffer::current or ScreenBuffer::info) ends in a panic and
\* returns no record at all, neither zero-sized nor with the payload's size.
C4_QueryFailureIsFatal ==
    [][ ( /\ EndsCall
          /\ record.EventType = 4
          /\ (console.current = "Err" \/ console.info = "Err") )
        => /\ pc' = "panicked"
           /\ result' = NoResult
           /\ panic' = IF console.current = "Err"
                         THEN "unwrap: ScreenBuffer::current"
                         ELSE "unwrap: ScreenBuffer::info" ]_vars

C4_Witness ==
    /\ pc = "panicked"
    /\ record.EventType = 4
    /\ panic = "unwrap: ScreenBuffer::info"
    /\ result = NoResult

\* what a key, mouse, focus or menu record decodes to, from the record alone
DecodedFromRecordAlone(r) ==
    CASE r.EventType = 1 ->
           Variant("KeyEvent", from_winapi(KeyEventArm(r.Event)))
      [] r.EventType = 2 ->
           Variant("MouseEvent", MouseEvent_from(MouseEventArm(r.Event)))
      [] r.EventType = 16 ->
           Variant("FocusEvent", FocusEventRecord_from(FocusEventArm(r.Event)))
      [] r.EventType = 8 ->
           Variant("MenuEvent", MenuEventRecord_from(MenuEventArm(r.Event)))

\* C5: the terminal size is queried only by the window-buffer-size path, and
\* there exactly once; a key, mouse, focus or menu decode makes no query,
\* returns in every console state (a failing one included), and returns a
\* value that depends on the record alone.
C5_QueryOnlyOnResize ==
    [][ EndsCall
        => /\ queries' = IF record.EventType = 4 THEN 1 ELSE 0
           /\ record.EventType \in {1, 2, 8, 16}
                => /\ pc' = "returned"
                   /\ result' = DecodedFromRecordAlone(record) ]_vars

C5_Witness ==
    /\ pc = "returned"
    /\ result.variant = "KeyEvent"
    /\ console.current = "Err"
    /\ queries = 0

\* C6: EventFlags::from is total onto the six values, with 0, 1, 2, 4, 8
\* mapped to PressOrRelease, MouseMoved, DoubleClick, MouseWheeled,
\* MouseHwheeled and every other u32 mapped to Unknown.
C6_EventFlagsExactMatch ==
    (pc \in {"returned", "inspected"} /\ result.variant = "MouseEvent")
        => LET v == U32(record.Event[8], record.Event[7])
               r == result.value.event_flags
           IN  /\ r \in {"PressOrRelease", "MouseMoved", "DoubleClick",
                         "MouseWheeled", "MouseHwheeled", "Unknown"}
               /\ (v.hi = 0 /\ v.lo = 0) <=> (r = "PressOrRelease")
               /\ (v.hi = 0 /\ v.lo = 1) <=> (r = "MouseMoved")
               /\ (v.hi = 0 /\ v.lo = 2) <=> (r = "DoubleClick")
               /\ (v.hi = 0 /\ v.lo = 4) <=> (r = "MouseWheeled")
               /\ (v.hi = 0 /\ v.lo = 8) <=> (r = "MouseHwheeled")
               /\ (v.hi # 0 \/ v.lo \notin {0, 1, 2, 4, 8}) <=> (r = "Unknown")

C6_Witness ==
    /\ pc = "returned"
    /\ result.variant = "MouseEvent"
    /\ record.Event[7] = 3
    /\ record.Event[8] = 0
    /\ result.value.event_flags = "Unknown"

\* C7: with s the raw u32 button state v read as a two's complement i32,
\* release_button() = (v = 0), scroll_down() = (s < 0), scroll_up() = (s > 0)
\* and state() = s; scroll_down and scroll_up never hold together, neither
\* holds for v = 0, and exactly one holds for every other v.
C7_ButtonStateSign ==
    (pc = "inspected" /\ obs.kind = "buttons")
        => LET v == U32(record.Event[4], record.Event[3])
               negative == v.hi >= 32768
           IN  /\ obs.release_button = (v.hi = 0 /\ v.lo = 0)
               /\ obs.scroll_down = negative
               /\ obs.scroll_up = (~negative /\ (v.hi # 0 \/ v.lo # 0))
               /\ obs.state >= -2147483647 - 1
               /\ obs.state <= 2147483647
               /\ (obs.state < 0) = negative
               /\ AsU32(obs.state) = v
               /\ ~(obs.scroll_down /\ obs.scroll_up)
               /\ (v.hi = 0 /\ v.lo = 0)
                    => (~obs.scroll_down /\ ~obs.scroll_up)
               /\ (v.hi # 0 \/ v.lo # 0)
                    => (obs.scroll_down # obs.scroll_up)

C7_Witness ==
    /\ pc = "inspected"
    /\ obs.kind = "buttons"
    /\ record.Event[3] = 1
    /\ record.Event[4] = 0
    /\ obs.scroll_up
    /\ ~obs.scroll_down
    /\ ~obs.release_button
    /\ obs.state = 1

C9_KeyFieldsUnchanged ==
    (pc \in {"returned", "inspected"} /\ record.EventType = 1)
        => /\ result.variant = "KeyEvent"
           /\ result.value.key_down
                = (record.Event[1] # 0 \/ record.Event[2] # 0)
           /\ result.value.repeat_count = record.Event[3]
           /\ result.value.virtual_key_code = record.Event[4]
           /\ result.value.virtual_scan_code = record.Event[5]
           /\ result.value.u_char = record.Event[6]
           /\ result.value.control_key_state.raw
                = U32(record.Event[8], record.Event[7])

C9_Witness ==
    /\ pc = "returned"
    /\ record.EventType = 1
    /\ record.Event[6] = 8364
    /\ result.variant = "KeyEvent"
    /\ result.value.u_char = 8364
    /\ result.value.key_down
    /\ result.value.repeat_count = 5

\* the raw control-key bitmask of the current key or mouse record
RawControlKeyState ==
    IF record.EventType = 1 THEN U32(record.Event[8], record.Event[7])
                            ELSE U32(record.Event[6], record.Event[5])

\* C10: has_state(mask) holds iff mask and the raw bitmask have at least
\* one set bit in common; so it is false for mask 0 and for raw 0, and a
\* mask of several bits needs only one of them.
C10_HasStateAnyBit ==
    (pc = "inspected" /\ obs.kind = "has_state")
        => /\ obs.value = ShareABit(obs.mask, RawControlKeyState)
           /\ (obs.mask = U32(0, 0)) => ~obs.value
           /\ (RawControlKeyState = U32(0, 0)) => ~obs.value
           /\ (RawControlKeyState = U32(0, 16) /\ obs.mask = U32(0, 16))
                => obs.value
           /\ (RawControlKeyState = U32(0, 16) /\ obs.mask = U32(0, 1))
                => ~obs.value

C10_Witness ==
    /\ pc = "inspected"
    /\ obs.kind = "has_state"
    /\ RawControlKeyState = U32(0, 16)
    /\ obs.mask = U32(0, 17)
    /\ obs.value

====
